---- MODULE Spec2Model ----
(***************************************************************************)
(* ICL ledger: the interest accrual engine of src/app.py.                  *)
(*                                                                         *)
(* Dates are proleptic Gregorian day ordinals (datetime.date.toordinal);   *)
(* NoDate (0) is Python's None.  Money is an integer number of paise       *)
(* (1/100 rupee): every Decimal product/quotient of the source is taken    *)
(* to a whole paisa, rounding down.  Rates are whole percentages.          *)
(***************************************************************************)
EXTENDS Integers, Sequences, FiniteSets, TLC

VARIABLES customer, transactions, timeline, outcome, settlement, walk, balance_result,
          status_date

vars == <<customer, transactions, timeline, outcome, settlement, walk, balance_result,
          status_date>>

\* ------------------------------------------------------------ calendar

NoDate == 0

is_leap(year) == year % 4 = 0 /\ (year % 100 # 0 \/ year % 400 = 0)

DaysInMonth(y, m) ==
    IF m = 2 THEN (IF is_leap(y) THEN 29 ELSE 28)
    ELSE IF m \in {4, 6, 9, 11} THEN 30 ELSE 31

\* datetime(y, m, d) raises ValueError unless this holds
ValidDate(y, m, d) == m \in 1..12 /\ d >= 1 /\ d <= DaysInMonth(y, m)

LeapsBefore(y) == ((y - 1) \div 4) - ((y - 1) \div 100) + ((y - 1) \div 400)

DaysBeforeMonth(y, m) ==
    LET cum == <<0, 31, 59, 90, 120, 151, 181, 212, 243, 273, 304, 334>>
    IN  cum[m] + (IF m > 2 /\ is_leap(y) THEN 1 ELSE 0)

\* datetime(y, m, d).date() for a valid (y, m, d)
MkDate(y, m, d) == 365 * (y - 1) + LeapsBefore(y) + DaysBeforeMonth(y, m) + d

\* date.fromordinal(n): the civil date of day n, by 400-year eras counted
\* from March 1 (mp is the month counted from March, doy the day of that
\* year, yoe the year of the era, doe the day of the era)
FromMonthIndex(y, doy, mp) ==
    [year |-> y + (IF mp >= 10 THEN 1 ELSE 0),
     month |-> IF mp < 10 THEN mp + 3 ELSE mp - 9,
     day |-> doy - ((153 * mp + 2) \div 5) + 1]

FromDayOfYear(y, doy) == FromMonthIndex(y, doy, (5 * doy + 2) \div 153)

FromYearOfEra(era, doe, yoe) ==
    FromDayOfYear(yoe + era * 400, doe - (365 * yoe + (yoe \div 4) - (yoe \div 100)))

FromDayOfEra(era, doe) ==
    FromYearOfEra(era, doe,
                  (doe - (doe \div 1460) + (doe \div 36524) - (doe \div 146096)) \div 365)

FromOrdinal(n) == FromDayOfEra((n + 305) \div 146097, (n + 305) % 146097)

\* date.year, date.month, date.day
YearOf(n) == FromOrdinal(n).year

MonthOf(n) == FromOrdinal(n).month

DayOf(n) == FromOrdinal(n).day

\* the recurring leap-day test: 366 when the year `y` is a leap year whose
\* February 29 lies in [start_date, end_date], else 365
days_in_year_of(y, start_date, end_date) ==
    IF is_leap(y) /\ start_date <= MkDate(y, 2, 29) /\ MkDate(y, 2, 29) <= end_date
    THEN 366 ELSE 365

\* ------------------------------------------------------------ period resolver

\* the result of a resolver whose datetime(...) call raised ValueError
NoPeriod == [name |-> <<"ValueError", 0, 0>>, startDate |-> NoDate, endDate |-> NoDate, ok |-> FALSE]

\* the quarter of a date, both dates given as [year, month, day]
quarter_of(d, s) ==
    LET months_diff == (d.year - s.year) * 12 + (d.month - s.month)
        quarter_index == months_diff \div 3
        m0 == s.month + quarter_index * 3
        q_start_year == s.year + (m0 - 1) \div 12
        q_start_month == ((m0 - 1) % 12) + 1
        q_end_month == IF q_start_month + 3 > 12 THEN q_start_month + 3 - 12 ELSE q_start_month + 3
        q_end_year == IF q_start_month + 3 > 12 THEN q_start_year + 1 ELSE q_start_year
    IN  IF ~ValidDate(q_start_year, q_start_month, s.day) THEN NoPeriod
        ELSE [name |-> <<"Q", (quarter_index % 4) + 1, q_start_year>>,
              startDate |-> MkDate(q_start_year, q_start_month, s.day),
              endDate |-> MkDate(q_end_year, q_end_month, 1) - 1,
              ok |-> TRUE]

get_quarter_info(date_obj, start_date_obj) ==
    quarter_of(FromOrdinal(date_obj), FromOrdinal(start_date_obj))

\* the month window of the month (y, m), anchored on day d
month_of(y, m, d) ==
    IF ~ValidDate(y, m, d) THEN NoPeriod
    ELSE IF m # 12 /\ ~ValidDate(y, m + 1, d) THEN NoPeriod
    ELSE [name |-> <<"M", m, y>>,
          startDate |-> MkDate(y, m, d),
          endDate |-> IF m = 12 THEN MkDate(y, 12, 31) ELSE MkDate(y, m + 1, d) - 1,
          ok |-> TRUE]

get_month_info(date_obj, start_date_obj) ==
    month_of(YearOf(date_obj), MonthOf(date_obj), DayOf(start_date_obj))

\* the financial year that starts on April 1 of fy_year
financial_year(fy_year) ==
    [name |-> <<"FY", fy_year, fy_year + 1>>,
     startDate |-> MkDate(fy_year, 4, 1),
     endDate |-> MkDate(fy_year + 1, 3, 31),
     ok |-> TRUE]

get_financial_year_info(date_obj, start_date_obj) ==
    financial_year(IF MonthOf(date_obj) >= 4 THEN YearOf(date_obj) ELSE YearOf(date_obj) - 1)

\* the resolver each frequency's engine variant calls
period_info(frequency, date_obj, start_date_obj) ==
    IF frequency = "monthly" THEN get_month_info(date_obj, start_date_obj)
    ELSE IF frequency = "yearly" THEN get_financial_year_info(date_obj, start_date_obj)
    ELSE get_quarter_info(date_obj, start_date_obj)

\* the period of datetime(y, m, d), a date the constructor may reject
period_of_ymd(frequency, y, m, d, start_date_obj) ==
    IF ~ValidDate(y, m, d) THEN NoPeriod
    ELSE period_info(frequency, MkDate(y, m, d), start_date_obj)

\* the period after the one that starts in month sm of year sy on the
\* anchor day, `step` months later (months past December wrap as the
\* monthly and the quarterly loops wrap them)
period_after(frequency, sy, sm, step, start_date_obj) ==
    IF frequency = "yearly"
    THEN get_financial_year_info(MkDate(sy + 1, 4, 1), start_date_obj)
    ELSE period_of_ymd(frequency,
                       IF sm + step > 12 THEN sy + 1 ELSE sy,
                       IF sm + step > 12
                       THEN (IF frequency = "monthly" THEN 1 ELSE sm + step - 12)
                       ELSE sm + step,
                       DayOf(start_date_obj), start_date_obj)

\* "next period after this one", as add_missing_quarters / add_missing_months /
\* add_missing_years compute it from the current period
next_period_info(frequency, current, start_date_obj) ==
    period_after(frequency, YearOf(current.startDate), MonthOf(current.startDate),
                 IF frequency = "monthly" THEN 1 ELSE 3, start_date_obj)

\* ------------------------------------------------------------ arithmetic

Min(a, b) == IF a <= b THEN a ELSE b

\* floor(a * b / c) for c > 0, without forming a * b
MulDiv(a, b, c) == (a \div c) * b + ((a % c) * b) \div c

\* the same on a 360-day year whatever days_in_year is
interest_on_360(balance, rate, days, days_in_year) == MulDiv(balance, rate * days, 100 * 360)

\* (balance * (rate / 100) * days) / days_in_year
interest_on(balance, rate, days, days_in_year) == MulDiv(balance, rate * days, 100 * days_in_year)

\* total_interest * (1 - tdsRate / 100)
net_of(total_interest, tds_rate) == (total_interest * (100 - tds_rate)) \div 100

\* overdue days counted from the end date itself, the grace period ignored
calculate_overdue_days_without_grace(c, current_date) ==
    IF c.icl_end_date = NoDate THEN 0
    ELSE IF current_date > c.icl_end_date THEN current_date - c.icl_end_date
    ELSE 0

calculate_overdue_days(c, current_date) ==
    IF c.icl_end_date = NoDate THEN 0
    ELSE IF current_date > c.icl_end_date + c.grace_period
         THEN current_date - (c.icl_end_date + c.grace_period)
         ELSE 0

\* the penalty without the early return for overdue_days <= 0
calculate_penalty_interest_unguarded(principal_amount, penalty_rate, overdue_days) ==
    MulDiv(principal_amount, penalty_rate * overdue_days, 100 * 365)

calculate_penalty_interest(principal_amount, penalty_rate, overdue_days) ==
    IF overdue_days <= 0 THEN 0
    ELSE MulDiv(principal_amount, penalty_rate * overdue_days, 100 * 365)

\* the status recomputed from the overdue days whatever it was before
update_loan_status_reopening(c, current_date) ==
    LET overdue_days == calculate_overdue_days(c, current_date)
        c1 == [c EXCEPT !.overdue_days = overdue_days]
    IN  IF c.icl_end_date = NoDate \/ current_date <= c.icl_end_date \/ overdue_days = 0
        THEN [c1 EXCEPT !.status = "active"]
        ELSE IF overdue_days <= 90 THEN [c1 EXCEPT !.status = "overdue"]
        ELSE [c1 EXCEPT !.status = "npa"]

\* an account found overdue or npa by an earlier call is rolled over: its
\* end date moved to the current date
update_loan_status_rolling_over(c, current_date) ==
    LET overdue_days == calculate_overdue_days(c, current_date)
        c1 == [c EXCEPT !.overdue_days = overdue_days]
    IN  IF c.status = "closed" THEN c1
        ELSE IF c.status \in {"overdue", "npa"}
             THEN [c EXCEPT !.icl_end_date = current_date, !.status = "active",
                            !.overdue_days = 0]
        ELSE IF c.icl_end_date = NoDate \/ current_date <= c.icl_end_date \/ overdue_days = 0
             THEN [c1 EXCEPT !.status = "active"]
        ELSE IF overdue_days <= 90 THEN [c1 EXCEPT !.status = "overdue"]
        ELSE [c1 EXCEPT !.status = "npa"]

update_loan_status(c, current_date) ==
    LET overdue_days == calculate_overdue_days(c, current_date)
        c1 == [c EXCEPT !.overdue_days = overdue_days]
    IN  IF c.status = "closed" THEN c1
        ELSE IF c.icl_end_date # NoDate /\ current_date <= c.icl_end_date
             THEN [c1 EXCEPT !.status = "active"]
        ELSE IF c.icl_end_date = NoDate THEN [c1 EXCEPT !.status = "active"]
        ELSE IF overdue_days = 0 THEN [c1 EXCEPT !.status = "active"]
        ELSE IF overdue_days <= 90 THEN [c1 EXCEPT !.status = "overdue"]
        ELSE [c1 EXCEPT !.status = "npa"]

\* ------------------------------------------------------------ ledger rows

\* A timeline entry.  kind and name together are the dict's 'id'
\* ("summary-<period>", "missing-<period>", "opening-<period>",
\* "remaining-period-<date>", or the transaction's id); keys is the set of
\* optional keys the dict carries; an absent key's field is 0.
Row(kind, name, date, paid, received, outstanding) ==
    [kind |-> kind, name |-> name, date |-> date, paid |-> paid, received |-> received,
     outstanding |-> outstanding, days |-> 0, interest |-> 0, penalty_interest |-> 0,
     tds |-> 0, net |-> 0, principal_balance |-> 0, keys |-> {}]

WithInterest(row, days, interest, net) ==
    [row EXCEPT !.days = days, !.interest = interest, !.net = net, !.tds = interest - net,
                !.keys = @ \cup {"days", "interest", "tds", "net"}]

\* the principal balance of a row taken to be its outstanding balance,
\* capitalised interest included
WithPrincipal_capitalised(v, row, principal_balance) ==
    IF v.interest_type = "simple"
    THEN [row EXCEPT !.principal_balance = row.outstanding, !.keys = @ \cup {"principal_balance"}]
    ELSE row

\* the simple variants' rows carry 'principal_balance'; the compound ones do not
WithPrincipal(v, row, principal_balance) ==
    IF v.interest_type = "simple"
    THEN [row EXCEPT !.principal_balance = principal_balance, !.keys = @ \cup {"principal_balance"}]
    ELSE row

\* sorted(customer.transactions, key=lambda x: x.date): stable insertion sort
RECURSIVE InsertByDate(_, _)
InsertByDate(sorted, tx) ==
    IF sorted = <<>> THEN <<tx>>
    ELSE IF sorted[Len(sorted)].date <= tx.date THEN Append(sorted, tx)
    ELSE Append(InsertByDate(SubSeq(sorted, 1, Len(sorted) - 1), tx), sorted[Len(sorted)])

RECURSIVE SortByDate(_)
SortByDate(txs) ==
    IF txs = <<>> THEN <<>>
    ELSE InsertByDate(SortByDate(SubSeq(txs, 1, Len(txs) - 1)), txs[Len(txs)])


\* ------------------------------------------------------------ accrual engine
\* The six calculate_*_interest_data functions share one skeleton; a variant
\* v = [interest_type, frequency] names the function, and every place where
\* the six texts differ is a test on v below.

Simple(v) == v.interest_type = "simple"

Monthly(v) == v.frequency = "monthly"

\* the local variables of a variant while it runs; error is the exception
\* that ended it ("none" while it has raised nothing)
EngineState(info) ==
    [timeline |-> <<>>, running_outstanding |-> 0, current_net_interest |-> 0,
     principal_balance |-> 0, last_info |-> info,
     error |-> IF info.ok THEN "none" ELSE "ValueError"]

\* the entry add_missing_quarters / add_missing_months / add_missing_years
\* appends for the period next_info that follows `current`
missing_period_entry(c, v, current, next_info, outstanding_balance, principal_bal) ==
    LET period_end_date ==
            IF c.icl_end_date # NoDate /\ next_info.endDate > c.icl_end_date
            THEN c.icl_end_date ELSE next_info.endDate
        days_in_period == period_end_date - current.endDate
        days_in_year == days_in_year_of(YearOf(current.endDate), current.endDate, period_end_date)
        base == IF Simple(v) THEN principal_bal ELSE outstanding_balance
        period_interest == interest_on(base, c.interest_rate, days_in_period, days_in_year)
        period_net == net_of(period_interest, c.tds_rate)
    IN  WithPrincipal(v,
            WithInterest(Row("missing", next_info.name, period_end_date, period_net, 0,
                             outstanding_balance + period_net),
                         days_in_period, period_interest, period_net),
            principal_bal)

\* add_missing_quarters / add_missing_months / add_missing_years: the while
\* loop, from `current` on; returns the rows appended and the balance
RECURSIVE add_missing_periods(_, _, _, _, _, _, _)
RECURSIVE add_missing_after(_, _, _, _, _, _, _, _)
add_missing_periods(c, v, current, to_info, outstanding_balance, principal_bal, rows) ==
    IF current.name = to_info.name
    THEN [rows |-> rows, outstanding_balance |-> outstanding_balance, error |-> "none"]
    ELSE add_missing_after(c, v, current, to_info, outstanding_balance, principal_bal, rows,
                           next_period_info(v.frequency, current, c.icl_start_date))

\* one pass of the while loop, next_info being the period after `current`
add_missing_after(c, v, current, to_info, outstanding_balance, principal_bal, rows, next_info) ==
    LET row == missing_period_entry(c, v, current, next_info, outstanding_balance, principal_bal)
    IN  IF ~next_info.ok
        THEN [rows |-> rows, outstanding_balance |-> outstanding_balance, error |-> "ValueError"]
        ELSE IF next_info.name = to_info.name
        THEN [rows |-> rows, outstanding_balance |-> outstanding_balance, error |-> "none"]
        ELSE IF c.icl_end_date # NoDate /\ row.date >= c.icl_end_date
        THEN [rows |-> Append(rows, row), outstanding_balance |-> row.outstanding,
              error |-> "none"]
        ELSE add_missing_periods(c, v, next_info, to_info, row.outstanding, principal_bal,
                                 Append(rows, row))

\* the opening-balance entry of the period tx_info, on the balance the gap
\* filling left
opening_entry(c, v, st, tx_date, tx_info, outstanding_balance) ==
    LET opening_end_date ==
            IF c.icl_end_date # NoDate /\ tx_date > c.icl_end_date THEN c.icl_end_date ELSE tx_date
        days_opening == opening_end_date - tx_info.startDate
        days_in_year_opening ==
            days_in_year_of(YearOf(tx_info.startDate), tx_info.startDate, opening_end_date)
        base == IF Simple(v) THEN st.principal_balance ELSE outstanding_balance
        interest_opening == interest_on(base, c.interest_rate, days_opening, days_in_year_opening)
        net_opening == net_of(interest_opening, c.tds_rate)
        opening0 == WithInterest(Row("opening", tx_info.name, tx_info.startDate, 0, 0,
                                     outstanding_balance),
                                 days_opening, interest_opening, net_opening)
    IN  \* the simple variants' opening dict has no 'days' key
        IF Simple(v)
        THEN WithPrincipal(v, [opening0 EXCEPT !.days = 0, !.keys = @ \ {"days"}],
                           st.principal_balance)
        ELSE opening0

\* the engine state once the previous period is closed, the gap is filled
\* (`filled`) and the period tx_info is opened (`opening`)
period_opened(st, tx_info, summary, filled, opening) ==
    IF filled.error # "none" THEN [st EXCEPT !.error = filled.error]
    ELSE [st EXCEPT !.timeline = (@ \o <<summary>>) \o filled.rows \o <<opening>>,
                    !.running_outstanding = filled.outstanding_balance,
                    !.current_net_interest = opening.net,
                    !.last_info = tx_info]

\* a summary entry that books the period's net interest as paid and leaves
\* the balance where it was
closing_summary_not_capitalised(v, st, info) ==
    WithPrincipal(v,
        Row("summary", info.name, info.endDate, st.current_net_interest, 0,
            st.running_outstanding),
        st.principal_balance)

\* the summary entry that closes the period `info`
closing_summary(v, st, info) ==
    WithPrincipal(v,
        Row("summary", info.name, info.endDate, st.current_net_interest, 0,
            st.running_outstanding + st.current_net_interest),
        st.principal_balance)

\* close the previous period and fill the gap up to tx_info
fill_gap(c, v, st, tx_info) ==
    add_missing_periods(c, v, st.last_info, tx_info,
                        st.running_outstanding + st.current_net_interest,
                        st.principal_balance, <<>>)

open_filled_period(c, v, st, tx_date, tx_info, filled) ==
    period_opened(st, tx_info, closing_summary(v, st, st.last_info), filled,
                  opening_entry(c, v, st, tx_date, tx_info, filled.outstanding_balance))

\* the `if is_first_tx_in_quarter:` block of the loop: close the previous
\* period, fill the gap, open the transaction's period
open_period(c, v, st, tx_date, tx_info) ==
    open_filled_period(c, v, st, tx_date, tx_info, fill_gap(c, v, st, tx_info))

\* the retroactive update that leaves the opening entry's net as it was
\* first computed
update_opening_entry_keeping_net(tl, name, new_row, k) ==
    [j \in 1..Len(tl) |->
        IF tl[j].kind = "opening" /\ tl[j].name = name
        THEN [tl[j] EXCEPT !.days = new_row.days, !.interest = new_row.interest,
                           !.keys = @ \cup {"days"}]
        ELSE tl[j]]

\* `for entry in timeline: if entry.get('id') == opening-<name>: ...; break`
RECURSIVE update_opening_entry(_, _, _, _)
update_opening_entry(tl, name, new_row, k) ==
    IF k > Len(tl) THEN tl
    ELSE IF tl[k].kind = "opening" /\ tl[k].name = name
         THEN [tl EXCEPT ![k] = [@ EXCEPT !.days = new_row.days, !.interest = new_row.interest,
                                          !.net = new_row.net, !.tds = new_row.tds,
                                          !.keys = @ \cup {"days"}]]
         ELSE update_opening_entry(tl, name, new_row, k + 1)

\* the tds written back by the retroactive update of the opening entry:
\* the monthly variants subtract net_opening (the value computed when the
\* period was opened), the others opening_net (the recomputed one)
recomputed_opening_tds(v, opening_interest, opening_net, net_opening) ==
    IF Monthly(v) THEN opening_interest - net_opening ELSE opening_interest - opening_net

\* every transaction counted as the first of its period
is_first_tx_always(tx_info, last_info) == TRUE

\* whether this transaction is counted as the first of a new period
is_first_tx_in_period(tx_info, last_info) == tx_info.name # last_info.name

\* use_inclusive_logic
use_inclusive_logic(c, is_first, is_repayment, tx_date, tx_info) ==
    \/ c.repayment_method = "inclusive"
    \/ (c.repayment_method = "exclusive" /\ is_first /\ is_repayment /\ tx_date = tx_info.endDate)

\* the inclusive branch taken by every repayment, first of its period or not
inclusive_branch_any_repayment(c, tx, tx_info, last_info) ==
    /\ tx.received > 0
    /\ use_inclusive_logic(c, is_first_tx_in_period(tx_info, last_info), tx.received > 0,
                           tx.date, tx_info)

\* `if is_first_tx_in_quarter and is_repayment and use_inclusive_logic:`
inclusive_branch(c, tx, tx_info, last_info) ==
    /\ is_first_tx_in_period(tx_info, last_info)
    /\ tx.received > 0
    /\ use_inclusive_logic(c, is_first_tx_in_period(tx_info, last_info), tx.received > 0,
                           tx.date, tx_info)

\* the balance a transaction row's interest is computed on; the monthly
\* compound variant reads principal_balance, a name it never binds
interest_base(v, principal_balance, outstanding_for_this_row) ==
    IF Simple(v) THEN principal_balance ELSE outstanding_for_this_row

base_is_bound(v) == Simple(v) \/ ~Monthly(v)

\* whether the next transaction continues the period tx_info
same_period_next(c, sorted_txs, i, tx_info, next_info) ==
    /\ i + 1 <= Len(sorted_txs)
    /\ next_info.name = tx_info.name
    /\ (c.icl_end_date = NoDate \/ sorted_txs[i + 1].date <= c.icl_end_date)

\* the rest of the loop body, the transaction's period being open
\* (`opened`): the interest of the transaction's own window and its entry;
\* inclusive is inclusive_branch for this transaction
transaction_entry(c, v, sorted_txs, i, tx_info, next_info, inclusive, opened) ==
    LET tx == sorted_txs[i]
        tx_date == tx.date
        running_outstanding == opened.running_outstanding
        principal_balance == opened.principal_balance + tx.paid - tx.received
        outstanding_for_this_row == running_outstanding + tx.paid - tx.received
        is_last_tx_in_period == ~same_period_next(c, sorted_txs, i, tx_info, next_info)
        end_date ==
            IF ~is_last_tx_in_period THEN sorted_txs[i + 1].date
            ELSE IF c.icl_end_date # NoDate /\ tx_info.endDate > c.icl_end_date
                 THEN c.icl_end_date ELSE tx_info.endDate
        \* --- the inclusive branch
        opening_days == (tx_date - tx_info.startDate) + 1
        balance_for_interest_calculation ==
            IF Simple(v)
            THEN (IF tx.received > running_outstanding
                  THEN principal_balance - tx.paid + tx.received ELSE principal_balance)
            ELSE (IF tx.received > running_outstanding
                  THEN running_outstanding ELSE outstanding_for_this_row)
        days_in_year_opening ==
            days_in_year_of(YearOf(tx_info.startDate), tx_info.startDate, tx_date)
        opening_interest ==
            interest_on(balance_for_interest_calculation, c.interest_rate, opening_days,
                        days_in_year_opening)
        opening_net == net_of(opening_interest, c.tds_rate)
        recomputed ==
            [days |-> opening_days, interest |-> opening_interest, net |-> opening_net,
             tds |-> recomputed_opening_tds(v, opening_interest, opening_net,
                                            opened.current_net_interest)]
        \* the leap-day test of the inclusive branch assigns end_date = tx_date
        \* when the period starts in a leap year
        end_date_after_recompute ==
            IF is_leap(YearOf(tx_info.startDate)) THEN tx_date ELSE end_date
        remaining_days == (end_date_after_recompute - (tx_date + 1))
                          + (IF is_last_tx_in_period THEN 1 ELSE 0)
        \* --- both branches
        days == IF inclusive
                THEN (IF outstanding_for_this_row <= 0 THEN 0
                      ELSE IF remaining_days < 0 THEN 0 ELSE remaining_days)
                ELSE (end_date - tx_date) + (IF is_last_tx_in_period THEN 1 ELSE 0)
        days_in_year == days_in_year_of(YearOf(tx_date), tx_date, tx_date + days)
        base == interest_base(v, principal_balance, outstanding_for_this_row)
        interest == interest_on(base, c.interest_rate, days, days_in_year)
        overdue_days_for_tx == calculate_overdue_days(c, tx_date)
        penalty_interest ==
            IF c.icl_end_date # NoDate /\ tx_date > c.icl_end_date /\ overdue_days_for_tx > 0
            THEN calculate_penalty_interest(base, c.penalty_rate, Min(overdue_days_for_tx, days))
            ELSE 0
        total_interest == interest + penalty_interest
        net == net_of(total_interest, c.tds_rate)
        row == WithPrincipal(v,
                   [Row("tx", <<"tx", tx.id, 0>>, tx_date, tx.paid, tx.received,
                        outstanding_for_this_row)
                    EXCEPT !.days = days, !.interest = interest,
                           !.penalty_interest = penalty_interest, !.net = net,
                           !.tds = total_interest - net,
                           !.keys = {"days", "interest", "penalty_interest", "tds", "net"}],
                   principal_balance)
        timeline_before_row ==
            IF inclusive
            THEN update_opening_entry(opened.timeline, tx_info.name, recomputed, 1)
            ELSE opened.timeline
    IN  IF opened.error # "none" THEN opened
        ELSE IF ~next_info.ok THEN [opened EXCEPT !.error = "ValueError"]
        ELSE IF ~base_is_bound(v) THEN [opened EXCEPT !.error = "NameError"]
        ELSE [opened EXCEPT
                 !.timeline = Append(timeline_before_row, row),
                 !.running_outstanding = outstanding_for_this_row,
                 !.principal_balance = principal_balance,
                 !.current_net_interest =
                     (IF inclusive THEN opening_net ELSE opened.current_net_interest) + net]

\* the loop body for a transaction whose period the resolver gave as tx_info
accrue_in_period(c, v, sorted_txs, i, st, tx_info) ==
    IF ~tx_info.ok THEN [st EXCEPT !.error = "ValueError"]
    ELSE transaction_entry(c, v, sorted_txs, i, tx_info,
             IF i + 1 <= Len(sorted_txs)
             THEN period_info(v.frequency, sorted_txs[i + 1].date, c.icl_start_date)
             ELSE tx_info,
             inclusive_branch(c, sorted_txs[i], tx_info, st.last_info),
             IF is_first_tx_in_period(tx_info, st.last_info)
             THEN open_period(c, v, st, sorted_txs[i].date, tx_info)
             ELSE st)

\* one iteration of `for i, tx in enumerate(sorted_txs)`
accrue_transaction(c, v, sorted_txs, i, st) ==
    IF st.error # "none" THEN st
    ELSE accrue_in_period(c, v, sorted_txs, i, st,
                          period_info(v.frequency, sorted_txs[i].date, c.icl_start_date))

RECURSIVE accrue_from(_, _, _, _, _)
accrue_from(c, v, sorted_txs, i, st) ==
    IF i > Len(sorted_txs) THEN st
    ELSE accrue_from(c, v, sorted_txs, i + 1, accrue_transaction(c, v, sorted_txs, i, st))

\* calculate_yearly_compound_interest_data only: the entry for the time
\* between the last financial year's end and the ICL end date
remaining_period_rows(c, v, last_info, final_outstanding) ==
    LET remaining_period_start == last_info.endDate + 1
        remaining_period_end == c.icl_end_date
        remaining_days == (remaining_period_end - remaining_period_start) + 1
        days_in_year == days_in_year_of(YearOf(remaining_period_start), remaining_period_start,
                                        remaining_period_end)
        remaining_interest == interest_on(final_outstanding, c.interest_rate, remaining_days,
                                          days_in_year)
        remaining_net == net_of(remaining_interest, c.tds_rate)
    IN  IF /\ ~Simple(v) /\ v.frequency = "yearly"
           /\ c.icl_end_date # NoDate /\ c.icl_end_date > last_info.endDate
           /\ remaining_days > 0
        THEN <<WithInterest(Row("remaining", <<"remaining", c.icl_end_date, 0>>,
                                remaining_period_end, remaining_net, 0,
                                final_outstanding + remaining_net),
                            remaining_days, remaining_interest, remaining_net)>>
        ELSE <<>>

\* what a variant returns once its loop has ended in state st
final_timeline(c, v, st, last_info) ==
    IF st.error # "none" THEN [timeline |-> <<>>, error |-> st.error]
    ELSE [timeline |-> Append(st.timeline, closing_summary(v, st, last_info))
                       \o remaining_period_rows(c, v, last_info,
                              st.running_outstanding + st.current_net_interest),
          error |-> "none"]

accrue_sorted(c, v, sorted_txs) ==
    final_timeline(c, v,
        accrue_from(c, v, sorted_txs, 1,
                    EngineState(period_info(v.frequency, sorted_txs[1].date, c.icl_start_date))),
        period_info(v.frequency, sorted_txs[Len(sorted_txs)].date, c.icl_start_date))

\* the body shared by the six variants: [timeline, error]
accrual_engine(c, v, txs) == accrue_sorted(c, v, SortByDate(txs))

calculate_simple_interest_data(c, txs) ==
    accrual_engine(c, [interest_type |-> "simple", frequency |-> "quarterly"], txs)

calculate_monthly_simple_interest_data(c, txs) ==
    accrual_engine(c, [interest_type |-> "simple", frequency |-> "monthly"], txs)

calculate_yearly_simple_interest_data(c, txs) ==
    accrual_engine(c, [interest_type |-> "simple", frequency |-> "yearly"], txs)

calculate_compound_interest_data(c, txs) ==
    accrual_engine(c, [interest_type |-> "compound", frequency |-> "quarterly"], txs)

calculate_monthly_compound_interest_data(c, txs) ==
    accrual_engine(c, [interest_type |-> "compound", frequency |-> "monthly"], txs)

calculate_yearly_compound_interest_data(c, txs) ==
    accrual_engine(c, [interest_type |-> "compound", frequency |-> "yearly"], txs)

\* the dispatch of calculate_data on interest_type and frequency
calculate_by_variant(c, txs) ==
    IF c.interest_type = "simple"
    THEN (IF c.frequency = "monthly" THEN calculate_monthly_simple_interest_data(c, txs)
          ELSE IF c.frequency = "yearly" THEN calculate_yearly_simple_interest_data(c, txs)
          ELSE calculate_simple_interest_data(c, txs))
    ELSE (IF c.frequency = "monthly" THEN calculate_monthly_compound_interest_data(c, txs)
          ELSE IF c.frequency = "yearly" THEN calculate_yearly_compound_interest_data(c, txs)
          ELSE calculate_compound_interest_data(c, txs))

Returned(c, r, current_date) ==
    [customer |-> c, timeline |-> r.timeline, error |-> r.error, current_date |-> current_date]

\* calculate_data: the account as update_loan_status leaves it, the timeline
\* returned, the exception raised ("none" when it returns) and the date
\* update_loan_status ran with (NoDate when it did not run)
calculate_data(c, txs, current_date) ==
    IF txs = <<>>
    THEN [customer |-> c, timeline |-> <<>>, error |-> "none", current_date |-> NoDate]
    ELSE Returned(update_loan_status(c, current_date),
                  calculate_by_variant(update_loan_status(c, current_date), txs),
                  current_date)

\* ------------------------------------------------------------ settlement

\* calculate_settlement_amount, given what its calculate_data call returned
calculate_settlement_amount(c, calculated_data, closure_date) ==
    IF calculated_data = <<>>
    THEN [closure_date |-> closure_date, outstanding_principal |-> 0, accrued_interest |-> 0,
          penalty_amount |-> 0, net_additional |-> 0, total_settlement |-> 0]
    ELSE
    LET last_entry == calculated_data[Len(calculated_data)]
        outstanding_balance == last_entry.outstanding
        last_date == last_entry.date
        additional_days == closure_date - last_date
        days_in_year == days_in_year_of(YearOf(closure_date), last_date, closure_date)
        additional_interest ==
            IF additional_days > 0
            THEN interest_on(outstanding_balance, c.interest_rate, additional_days, days_in_year)
            ELSE 0
        overdue_days == calculate_overdue_days(c, closure_date)
        penalty_amount ==
            IF additional_days > 0 /\ c.icl_end_date # NoDate /\ closure_date > c.icl_end_date
               /\ overdue_days > 0
            THEN calculate_penalty_interest(outstanding_balance, c.penalty_rate,
                                            Min(overdue_days, additional_days))
            ELSE 0
        total_additional == additional_interest + penalty_amount
        net_additional == net_of(total_additional, c.tds_rate)
    IN  [closure_date |-> closure_date, outstanding_principal |-> outstanding_balance,
         accrued_interest |-> additional_interest, penalty_amount |-> penalty_amount,
         net_additional |-> net_additional,
         total_settlement |-> outstanding_balance + net_additional]

\* ------------------------------------------------------------ balance query

\* the totals before the loop of calculate_balance_at_date reads an entry;
\* last is the index of the last entry of relevant_entries (0: none)
NoTotals ==
    [last |-> 0, running_balance |-> 0, total_paid |-> 0, total_received |-> 0,
     total_interest |-> 0, net_interest |-> 0]

\* one iteration of the loop over full_timeline
balance_entry(entry, k, effective_target_date, acc) ==
    IF entry.date <= effective_target_date
    THEN [last |-> k,
          running_balance |-> entry.outstanding,
          total_paid |-> acc.total_paid + (IF entry.kind = "tx" THEN entry.paid ELSE 0),
          total_received |-> acc.total_received
                             + (IF entry.kind = "tx" THEN entry.received ELSE 0),
          total_interest |-> acc.total_interest + entry.interest,
          net_interest |-> acc.net_interest + entry.net]
    ELSE acc

\* the loop over full_timeline, from entry k on
RECURSIVE balance_totals(_, _, _, _)
balance_totals(full_timeline, k, effective_target_date, acc) ==
    IF k > Len(full_timeline) THEN acc
    ELSE balance_totals(full_timeline, k + 1, effective_target_date,
                        balance_entry(full_timeline[k], k, effective_target_date, acc))

\* the target date taken as it is, beyond the end date too
effective_target_uncapped(c, target_date) == target_date

\* target_date capped by the account's end date
effective_target(c, target_date) ==
    IF c.icl_end_date # NoDate /\ target_date > c.icl_end_date
    THEN c.icl_end_date
    ELSE target_date

\* the interest added for the days from the last relevant entry to the
\* effective target date (0 when the target is not beyond that entry)
additional_interest_to(c, full_timeline, acc, effective_target_date) ==
    IF acc.last > 0 /\ effective_target_date > full_timeline[acc.last].date
    THEN interest_on(full_timeline[acc.last].outstanding, c.interest_rate,
                     effective_target_date - full_timeline[acc.last].date,
                     days_in_year_of(YearOf(full_timeline[acc.last].date),
                                     full_timeline[acc.last].date, effective_target_date))
    ELSE 0

\* the dict returned once the timeline is summed up
balance_dict(c, sorted_txs, target_date, effective_target_date, acc, additional_interest) ==
    [calculation_date |-> target_date,
     outstanding_balance |-> acc.running_balance + net_of(additional_interest, c.tds_rate),
     total_paid |-> acc.total_paid,
     total_received |-> acc.total_received,
     total_interest |-> acc.total_interest + additional_interest,
     net_interest |-> acc.net_interest + net_of(additional_interest, c.tds_rate),
     days_from_start |-> target_date - c.icl_start_date,
     transaction_count |->
         Cardinality({i \in 1..Len(sorted_txs) : sorted_txs[i].date <= effective_target_date}),
     last_transaction_date |-> sorted_txs[Len(sorted_txs)].date,
     is_beyond_icl_end |-> c.icl_end_date # NoDate /\ target_date > c.icl_end_date,
     is_predicted |-> effective_target_date > sorted_txs[Len(sorted_txs)].date]

balance_of_totals(c, txs, target_date, full_timeline, effective_target_date, acc) ==
    balance_dict(c, SortByDate(txs), target_date, effective_target_date, acc,
                 additional_interest_to(c, full_timeline, acc, effective_target_date))

\* an account without transactions reported as predicted once the target
\* date is past the start date
calculate_balance_at_date_predicting_empty(c, txs, target_date, full_timeline) ==
    IF txs = <<>>
    THEN [calculation_date |-> target_date, outstanding_balance |-> 0, total_paid |-> 0,
          total_received |-> 0, total_interest |-> 0, net_interest |-> 0,
          days_from_start |-> effective_target(c, target_date) - c.icl_start_date,
          transaction_count |-> 0, last_transaction_date |-> NoDate,
          is_beyond_icl_end |-> c.icl_end_date # NoDate /\ target_date > c.icl_end_date,
          is_predicted |-> effective_target(c, target_date) > c.icl_start_date]
    ELSE balance_of_totals(c, txs, target_date, full_timeline,
                           effective_target(c, target_date),
                           balance_totals(full_timeline, 1, effective_target(c, target_date),
                                          NoTotals))

\* calculate_balance_at_date, given the timeline its calculate_data call
\* returned (not called, and <<>>, when there are no transactions)
calculate_balance_at_date(c, txs, target_date, full_timeline) ==
    IF txs = <<>>
    THEN [calculation_date |-> target_date, outstanding_balance |-> 0, total_paid |-> 0,
          total_received |-> 0, total_interest |-> 0, net_interest |-> 0,
          days_from_start |-> effective_target(c, target_date) - c.icl_start_date,
          transaction_count |-> 0, last_transaction_date |-> NoDate,
          is_beyond_icl_end |-> c.icl_end_date # NoDate /\ target_date > c.icl_end_date,
          is_predicted |-> FALSE]
    ELSE balance_of_totals(c, txs, target_date, full_timeline,
                           effective_target(c, target_date),
                           balance_totals(full_timeline, 1, effective_target(c, target_date),
                                          NoTotals))

\* ------------------------------------------------------------ inputs

Rupees(n) == n * 100

MaxTxs == 2

MaxWalk == 6

\* ICL start dates: anchor days 1, 15 and 31, none later than a TxDates date
StartDates == {MkDate(2023, 1, 1), MkDate(2022, 10, 15), MkDate(2022, 10, 31)}

EndDates == {NoDate, MkDate(2024, 6, 30)}

TxDates == {MkDate(2023, 1, 1), MkDate(2023, 3, 31), MkDate(2023, 4, 5), MkDate(2023, 10, 20)}

\* <<paid, received>> of a disbursement, a part repayment, an over-repayment
TxAmounts == {<<Rupees(100000), 0>>, <<0, Rupees(50000)>>, <<0, Rupees(150000)>>}

\* wall-clock "today" of a request
Todays == {MkDate(2024, 8, 15)}

ClosureDates == {MkDate(2023, 6, 30), MkDate(2024, 2, 28), MkDate(2024, 2, 29)}

\* the Customer rows the add_customer form can store (model defaults for
\* the rates: 12 % interest, 10 % TDS, 2 % penalty, 30 days' grace)
Customers ==
    [icl_start_date : StartDates, icl_end_date : EndDates,
     interest_rate : {12}, tds_rate : {10}, penalty_rate : {2}, grace_period : {30},
     interest_type : {"simple", "compound"},
     frequency : {"monthly", "quarterly", "yearly"},
     repayment_method : {"inclusive", "exclusive"},
     status : {"active"}, closure_date : {NoDate}, overdue_days : {0}]

NoSettlement ==
    [closure_date |-> NoDate, outstanding_principal |-> 0, accrued_interest |-> 0,
     penalty_amount |-> 0, net_additional |-> 0, total_settlement |-> 0]

NoWalk == [date |-> NoDate, period |-> NoPeriod, previous |-> NoPeriod, steps |-> 0]

\* no calculate_balance_at_date result in this request
NoBalance ==
    [calculation_date |-> NoDate, outstanding_balance |-> 0, total_paid |-> 0,
     total_received |-> 0, total_interest |-> 0, net_interest |-> 0,
     days_from_start |-> 0, transaction_count |-> 0, last_transaction_date |-> NoDate,
     is_beyond_icl_end |-> FALSE, is_predicted |-> FALSE]

\* ------------------------------------------------------------ requests
\* customer and transactions are the stored rows.  timeline, outcome and
\* settlement belong to the request being served: the calculated_data list,
\* how the computation ended ("idle" while no request is being served,
\* "returned", or the exception raised) and the settlement dict; balance_result
\* is the dict calculate_balance_at_date returned and status_date the date
\* update_loan_status ran with in this request (NoDate when it did not run).
\* Requests are served one at a time.

Init ==
    /\ customer \in Customers
    /\ transactions = <<>>
    /\ timeline = <<>>
    /\ outcome = "idle"
    /\ settlement = NoSettlement
    /\ walk = NoWalk
    /\ balance_result = NoBalance
    /\ status_date = NoDate

\* POST /customer/<id>/add_transaction with the form's date d and amounts a
add_transaction(d, a) ==
    /\ outcome = "idle"
    /\ Len(transactions) < MaxTxs
    /\ IF customer.icl_end_date # NoDate /\ d > customer.icl_end_date
       THEN UNCHANGED transactions
       ELSE transactions' = Append(transactions,
                                   [id |-> Len(transactions) + 1, date |-> d,
                                    description |-> "Transaction",
                                    paid |-> a[1], received |-> a[2]])
    /\ UNCHANGED <<customer, timeline, outcome, settlement, walk, balance_result,
                   status_date>>

AddTransaction == \E d \in TxDates, a \in TxAmounts : add_transaction(d, a)

\* calculate_data(customer), as the ledger, report and export routes call it
CalculateData ==
    /\ outcome = "idle"
    /\ \E today \in Todays :
        \E r \in {calculate_data(customer, transactions, today)} :
            /\ customer' = r.customer
            /\ timeline' = r.timeline
            /\ outcome' = IF r.error = "none" THEN "returned" ELSE r.error
            /\ settlement' = NoSettlement
            /\ status_date' = r.current_date
            /\ UNCHANGED <<transactions, walk, balance_result>>

\* calculate_settlement_amount(customer, closure_date)
CalculateSettlement ==
    /\ outcome = "idle"
    /\ \E today \in Todays :
        \E r \in {calculate_data(customer, transactions, today)} :
            \E closure_date \in ClosureDates :
                /\ customer' = r.customer
                /\ timeline' = r.timeline
                /\ outcome' = IF r.error = "none" THEN "returned" ELSE r.error
                /\ settlement' = IF r.error = "none"
                                 THEN calculate_settlement_amount(r.customer, r.timeline,
                                                                  closure_date)
                                 ELSE NoSettlement
                /\ status_date' = r.current_date
                /\ UNCHANGED <<transactions, walk, balance_result>>

\* the request ends: the response is sent and the handler's locals are gone
ReturnResponse ==
    /\ outcome # "idle"
    /\ timeline' = <<>>
    /\ outcome' = "idle"
    /\ settlement' = NoSettlement
    /\ balance_result' = NoBalance
    /\ status_date' = NoDate
    /\ UNCHANGED <<customer, transactions, walk>>

Next == AddTransaction \/ CalculateData \/ CalculateSettlement \/ ReturnResponse

Spec == Init /\ [][Next]_vars

\* ------------------------------------------------------------ period walk
\* The resolver walked on its own: the period of a date (walk.date), then
\* "the next period after this one" again and again, for the account's
\* frequency and start date.

InitWalk ==
    /\ customer \in Customers
    /\ transactions = <<>>
    /\ timeline = <<>>
    /\ outcome = "idle"
    /\ settlement = NoSettlement
    /\ walk = NoWalk
    /\ balance_result = NoBalance
    /\ status_date = NoDate

ResolvePeriod ==
    \E d \in TxDates :
        /\ walk' = [date |-> d,
                    period |-> period_info(customer.frequency, d, customer.icl_start_date),
                    previous |-> NoPeriod, steps |-> 0]
        /\ UNCHANGED <<customer, transactions, timeline, outcome, settlement,
                       balance_result, status_date>>

NextPeriod ==
    /\ walk.period.ok
    /\ walk.steps < MaxWalk
    /\ walk' = [date |-> walk.date,
                period |-> next_period_info(customer.frequency, walk.period,
                                            customer.icl_start_date),
                previous |-> walk.period, steps |-> walk.steps + 1]
    /\ UNCHANGED <<customer, transactions, timeline, outcome, settlement,
                   balance_result, status_date>>

NextWalk == ResolvePeriod \/ NextPeriod

SpecWalk == InitWalk /\ [][NextWalk]_vars

\* ------------------------------------------------------------ status update
\* update_loan_status(customer, current_date) applied on its own, for
\* current dates on both sides of the end date, of the end of the grace
\* period and of the 90th overdue day.

AsOfDates ==
    {MkDate(2024, 6, 15), MkDate(2024, 6, 30), MkDate(2024, 7, 30), MkDate(2024, 7, 31),
     MkDate(2024, 10, 28), MkDate(2024, 10, 29)}

UpdateLoanStatus ==
    \E as_of \in AsOfDates :
        /\ outcome = "idle"
        /\ customer' = update_loan_status(customer, as_of)
        /\ status_date' = as_of
        /\ outcome' = "returned"
        /\ UNCHANGED <<transactions, timeline, settlement, walk, balance_result>>

NextStatus == UpdateLoanStatus \/ ReturnResponse

SpecStatus == Init /\ [][NextStatus]_vars

\* ------------------------------------------------------------ balance calculator
\* The balance calculator's POST next to the requests of Spec.

\* calculation dates before the first start date's transactions, inside the
\* ledger, on and after the leap day, and beyond the end date
BalanceDates ==
    {MkDate(2022, 12, 31), MkDate(2023, 2, 15), MkDate(2023, 6, 15), MkDate(2024, 2, 29),
     MkDate(2024, 8, 1)}

\* POST /customer/<id>/balance_calculator with the form's calculation_date;
\* a date before the start date is answered with a redirect and no result
calculate_balance(calculation_date) ==
    /\ outcome = "idle"
    /\ IF calculation_date < customer.icl_start_date
       THEN /\ outcome' = "returned"
            /\ UNCHANGED <<customer, transactions, timeline, settlement, walk,
                           balance_result, status_date>>
       ELSE \E today \in Todays :
                \E r \in {calculate_data(customer, transactions, today)} :
                    /\ customer' = r.customer
                    /\ timeline' = r.timeline
                    /\ outcome' = IF r.error = "none" THEN "returned" ELSE r.error
                    /\ balance_result' =
                           IF r.error = "none"
                           THEN calculate_balance_at_date(r.customer, transactions,
                                                          calculation_date, r.timeline)
                           ELSE NoBalance
                    /\ status_date' = r.current_date
                    /\ UNCHANGED <<transactions, settlement, walk>>

CalculateBalance == \E calculation_date \in BalanceDates : calculate_balance(calculation_date)

NextBalance ==
    \/ AddTransaction
    \/ CalculateData
    \/ CalculateSettlement
    \/ CalculateBalance
    \/ ReturnResponse

SpecBalance == Init /\ [][NextBalance]_vars

\* ------------------------------------------------------------ loan life cycle
\* The routes that change an account after it was created: transactions
\* added and edited, the account edited, the loan closed; with the ledger
\* view and the status update in between.

\* accounts of the life cycle: quarterly, start 2023-01-01, exclusive
LoanCustomers ==
    {c \in Customers : /\ c.icl_start_date = MkDate(2023, 1, 1)
                       /\ c.frequency = "quarterly"
                       /\ c.repayment_method = "exclusive"}

\* the icl_end_date values the edit_customer form posts
EditEndDates == {NoDate, MkDate(2023, 6, 30), MkDate(2024, 6, 30)}

LoanTxDates == {MkDate(2023, 1, 1), MkDate(2023, 10, 20)}

LoanTxAmounts == {<<Rupees(100000), 0>>, <<0, Rupees(50000)>>}

\* closure dates before and after the end dates
LoanClosureDates == {MkDate(2023, 6, 30), MkDate(2024, 2, 29)}

InitLoan ==
    /\ customer \in LoanCustomers
    /\ transactions = <<>>
    /\ timeline = <<>>
    /\ outcome = "idle"
    /\ settlement = NoSettlement
    /\ walk = NoWalk
    /\ balance_result = NoBalance
    /\ status_date = NoDate

\* calculation dates of the life cycle's balance queries
LoanBalanceDates == {MkDate(2023, 6, 15), MkDate(2024, 8, 1)}

CalculateLoanBalance ==
    \E calculation_date \in LoanBalanceDates : calculate_balance(calculation_date)

AddLoanTransaction ==
    \E d \in LoanTxDates, a \in LoanTxAmounts : add_transaction(d, a)

\* POST /edit_transaction/<id>
EditTransaction ==
    \E i \in 1..Len(transactions), d \in LoanTxDates, a \in LoanTxAmounts :
        /\ outcome = "idle"
        /\ IF customer.icl_end_date # NoDate /\ d > customer.icl_end_date
           THEN UNCHANGED transactions
           ELSE transactions' = [transactions EXCEPT ![i] =
                                    [@ EXCEPT !.date = d, !.description = "Transaction",
                                              !.paid = a[1], !.received = a[2]]]
        /\ UNCHANGED <<customer, timeline, outcome, settlement, walk, balance_result,
                       status_date>>

\* POST /edit_customer/<id>: the form posts every field; here it posts the
\* stored values again, except for the end date
EditCustomer ==
    \E end_date \in EditEndDates :
        /\ outcome = "idle"
        /\ customer' = [customer EXCEPT !.icl_end_date = end_date]
        /\ UNCHANGED <<transactions, timeline, outcome, settlement, walk, balance_result,
                       status_date>>

\* the account and the transactions close_loan stores once the settlement
\* is computed
closed_loan(c, txs, settlement_amount, closure_date) ==
    [customer |-> [c EXCEPT !.status = "closed", !.closure_date = closure_date,
                            !.overdue_days = 0],
     transactions |-> Append(txs, [id |-> Len(txs) + 1, date |-> closure_date,
                                   description |-> "Loan Closure - Final Settlement",
                                   paid |-> 0,
                                   received |-> settlement_amount.total_settlement])]

\* POST /customer/<id>/close_loan; nothing is stored when the calculation
\* raises
CloseLoan ==
    /\ outcome = "idle"
    /\ Len(transactions) < MaxTxs
    /\ \E today \in Todays :
        \E r \in {calculate_data(customer, transactions, today)} :
            \E closure_date \in LoanClosureDates :
                \E s \in {calculate_settlement_amount(r.customer, r.timeline, closure_date)} :
                    \E closed \in {closed_loan(r.customer, transactions, s, closure_date)} :
                        /\ customer' = IF r.error = "none" THEN closed.customer ELSE r.customer
                        /\ transactions' = IF r.error = "none" THEN closed.transactions
                                           ELSE transactions
                        /\ timeline' = r.timeline
                        /\ outcome' = IF r.error = "none" THEN "returned" ELSE r.error
                        /\ settlement' = IF r.error = "none" THEN s ELSE NoSettlement
                        /\ status_date' = r.current_date
                        /\ UNCHANGED <<walk, balance_result>>

NextLoan ==
    \/ AddLoanTransaction
    \/ EditTransaction
    \/ EditCustomer
    \/ CloseLoan
    \/ CalculateData
    \/ CalculateLoanBalance
    \/ UpdateLoanStatus
    \/ ReturnResponse

SpecLoan == InitLoan /\ [][NextLoan]_vars

\* ------------------------------------------------------------ leap-year ledger
\* The ledger with transactions in periods that start in the leap year 2024.

LeapTxDates == {MkDate(2023, 10, 20), MkDate(2024, 2, 10), MkDate(2024, 4, 5)}

LeapTxAmounts == {<<Rupees(100000), 0>>, <<0, Rupees(50000)>>}

AddLeapTransaction ==
    \E d \in LeapTxDates, a \in LeapTxAmounts : add_transaction(d, a)

NextLeap == AddLeapTransaction \/ CalculateData \/ ReturnResponse

SpecLeap == Init /\ [][NextLeap]_vars

\* ------------------------------------------------------------ overpaid ledger
\* The ledger with repayments that exceed the principal paid out: by less
\* than the interest capitalised in a quarter, and by far more.

OverpayTxDates == {MkDate(2023, 1, 1), MkDate(2023, 4, 5)}

OverpayTxAmounts == {<<Rupees(100000), 0>>, <<0, Rupees(101000)>>, <<0, Rupees(150000)>>}

AddOverpayTransaction ==
    \E d \in OverpayTxDates, a \in OverpayTxAmounts : add_transaction(d, a)

NextOverpay == AddOverpayTransaction \/ CalculateData \/ ReturnResponse

SpecOverpay == Init /\ [][NextOverpay]_vars

\* ------------------------------------------------------------ variant ledgers
\* The ledger of accounts whose whole interest is deducted as TDS
\* (tds_rate 100: nothing is capitalised) next to the ordinary ones, all
\* started on 2023-01-01.

VariantTdsRates == {10, 100}

VariantCustomers ==
    {[c EXCEPT !.tds_rate = t] :
        c \in {x \in Customers : x.icl_start_date = MkDate(2023, 1, 1)},
        t \in VariantTdsRates}

InitVariants ==
    /\ customer \in VariantCustomers
    /\ transactions = <<>>
    /\ timeline = <<>>
    /\ outcome = "idle"
    /\ settlement = NoSettlement
    /\ walk = NoWalk
    /\ balance_result = NoBalance
    /\ status_date = NoDate

NextVariants == AddTransaction \/ CalculateData \/ ReturnResponse

SpecVariants == InitVariants /\ [][NextVariants]_vars

\* --- transactions left behind the end date: every variant of an account
\* opened on 2023-01-01, whose end date the edit form moves before or after
\* the transactions already stored
InitOverdue ==
    /\ customer \in {c \in Customers : c.icl_start_date = MkDate(2023, 1, 1)}
    /\ transactions = <<>>
    /\ timeline = <<>>
    /\ outcome = "idle"
    /\ settlement = NoSettlement
    /\ walk = NoWalk
    /\ balance_result = NoBalance
    /\ status_date = NoDate

NextOverdue == AddTransaction \/ EditCustomer \/ CalculateData \/ ReturnResponse

SpecOverdue == InitOverdue /\ [][NextOverdue]_vars

\* ------------------------------------------------------------ properties

Responded == outcome # "idle"

\* rows whose paid field is capitalised net interest, not a cash movement
InterestRow(e) == e.kind \in {"summary", "missing", "remaining"}

HasInterestFields(e) == {"interest", "tds", "net"} \subseteq e.keys

\* C1: balance continuity.  In every timeline calculate_data returns, the
\* first entry's outstanding is its own paid - received, and every later
\* entry's outstanding is the previous entry's outstanding plus the cash
\* movement of a transaction or opening row (paid - received), or plus the
\* capitalised net interest a summary, missing-period or remaining-period
\* row carries in paid, counted once.
C1_BalanceContinuity ==
    timeline # <<>> =>
        /\ timeline[1].outstanding = timeline[1].paid - timeline[1].received
        /\ \A i \in 2..Len(timeline) :
               timeline[i].outstanding =
                   timeline[i - 1].outstanding
                   + (IF InterestRow(timeline[i]) THEN timeline[i].paid
                      ELSE timeline[i].paid - timeline[i].received)

\* a returned timeline with a closing summary, gap fillers, an opening row
\* and transactions on both sides of the gap
C1_Witness ==
    /\ outcome = "returned"
    /\ \E i, j, k \in 1..Len(timeline) :
           /\ i < j /\ j < k
           /\ timeline[i].kind = "summary" /\ timeline[i].paid > 0
           /\ timeline[j].kind = "missing" /\ timeline[j].paid > 0
           /\ timeline[k].kind = "opening"

\* C2: TDS identity.  Every row that carries interest fields has
\* tds = (interest + penalty_interest) - net, in every variant, also after
\* the inclusive branch has recomputed an opening row.
C2_TdsIdentity ==
    \A i \in 1..Len(timeline) :
        HasInterestFields(timeline[i]) =>
            timeline[i].tds =
                (timeline[i].interest + timeline[i].penalty_interest) - timeline[i].net

\* C3: calculate_data returns a timeline, and raises nothing, for every
\* interest type, frequency, start date and non-empty transaction list.
C3_NeverRaises == outcome \in {"idle", "returned"}

\* C4: the entries of a returned timeline are in non-decreasing date order.
C4_DateOrdered ==
    \A i \in 2..Len(timeline) : timeline[i - 1].date <= timeline[i].date

\* the account of the two scenarios: starts 2023-01-01, 12 %, TDS 10 %,
\* quarterly compound
ScenarioAccount ==
    /\ customer.icl_start_date = MkDate(2023, 1, 1)
    /\ customer.interest_rate = 12 /\ customer.tds_rate = 10
    /\ customer.interest_type = "compound" /\ customer.frequency = "quarterly"

Disbursed(tx) == tx.date = MkDate(2023, 1, 1) /\ tx.paid = Rupees(100000) /\ tx.received = 0

Repaid(tx) == tx.date = MkDate(2023, 3, 31) /\ tx.paid = 0 /\ tx.received = Rupees(50000)

OneDisbursement ==
    /\ ScenarioAccount /\ outcome = "returned"
    /\ Len(transactions) = 1 /\ Disbursed(transactions[1])

\* C5: with one disbursement of 100,000 on 2023-01-01 the timeline is the
\* transaction row, 90 days on a 365-day year, gross interest 2958.90 and
\* net interest 2663.01, and the Q1 2023 summary dated 2023-03-31 with
\* closing outstanding 102663.01.
C5_FirstQuarter ==
    OneDisbursement =>
        /\ Len(timeline) = 2
        /\ timeline[1].kind = "tx" /\ timeline[1].days = 90
        /\ timeline[1].interest = MulDiv(Rupees(100000), 12 * 90, 100 * 365)
        /\ timeline[1].interest = 295890
        /\ timeline[1].net = 266301
        /\ timeline[2].kind = "summary" /\ timeline[2].name = <<"Q", 1, 2023>>
        /\ timeline[2].date = MkDate(2023, 3, 31)
        /\ timeline[2].outstanding = 10266301

C5_Witness == OneDisbursement /\ settlement = NoSettlement /\ Len(timeline) = 2

DisbursementThenRepayment ==
    /\ ScenarioAccount /\ customer.repayment_method = "exclusive"
    /\ outcome = "returned"
    /\ Len(transactions) = 2
    /\ Disbursed(SortByDate(transactions)[1]) /\ Repaid(SortByDate(transactions)[2])

\* the period the resolver gives both transactions of the scenario
ScenarioQuarter == get_quarter_info(MkDate(2023, 3, 31), MkDate(2023, 1, 1))

\* C6 as the specification states it: the repayment of 50,000 on the period
\* end date 2023-03-31 makes the exclusive override fire, so the window of
\* the pre-repayment balance ends on, and counts, the repayment date
\* (90 days on 100,000 and none left for the reduced balance).
C6_OverrideFires ==
    DisbursementThenRepayment =>
        /\ inclusive_branch(customer, SortByDate(transactions)[2], ScenarioQuarter,
                            ScenarioQuarter)
        /\ timeline[1].days = 90
        /\ timeline[2].days = 0

\* C6, amended: the repayment is the second transaction of Q1 2023, so the
\* override does not fire and the standard window applies: no opening row
\* is recomputed, the disbursement row accrues 89 days (to 2023-03-30) on
\* 100,000 and the repayment row 1 day (2023-03-31) on the reduced 50,000.
C6_StandardWindow ==
    DisbursementThenRepayment =>
        /\ ~inclusive_branch(customer, SortByDate(transactions)[2], ScenarioQuarter,
                             ScenarioQuarter)
        /\ Len(timeline) = 3
        /\ \A i \in 1..3 : timeline[i].kind # "opening"
        /\ timeline[1].days = 89
        /\ timeline[1].interest = MulDiv(Rupees(100000), 12 * 89, 100 * 365)
        /\ timeline[2].received = Rupees(50000) /\ timeline[2].days = 1
        /\ timeline[2].outstanding = Rupees(50000)
        /\ timeline[2].interest = MulDiv(Rupees(50000), 12 * 1, 100 * 365)
        /\ timeline[3].kind = "summary"
        /\ timeline[3].outstanding = Rupees(50000) + timeline[1].net + timeline[2].net

C6_Witness ==
    /\ DisbursementThenRepayment
    /\ timeline[2].received = Rupees(50000) /\ timeline[2].date = ScenarioQuarter.endDate

\* the transaction-free periods between period `current` and period
\* to_info, walked by "next period after this one"; <<NoPeriod>> ends the
\* walk where the resolver raises
RECURSIVE EmptyPeriodsBetween(_, _, _, _)
EmptyPeriodsBetween(frequency, current, to_info, start_date_obj) ==
    IF current.name = to_info.name THEN <<>>
    ELSE LET next_info == next_period_info(frequency, current, start_date_obj)
         IN  IF ~next_info.ok THEN <<NoPeriod>>
             ELSE IF next_info.name = to_info.name THEN <<>>
             ELSE <<next_info>> \o EmptyPeriodsBetween(frequency, next_info, to_info,
                                                       start_date_obj)

\* paid - received of the first n transactions in date order
RECURSIVE PrincipalAfter(_, _)
PrincipalAfter(sorted_txs, n) ==
    IF n = 0 THEN 0
    ELSE PrincipalAfter(sorted_txs, n - 1) + sorted_txs[n].paid - sorted_txs[n].received

\* timeline[a] closes period P and is followed by one filler per period of
\* `gap`, in order, each over its own period's days on the balance at entry
\* (balance: the principal for simple, the previous row's outstanding for
\* compound), and then by the opening row of period Q
FilledAfter(a, P, gap, Q, principal) ==
    /\ a + Len(gap) + 1 <= Len(timeline)
    /\ timeline[a].kind = "summary" /\ timeline[a].name = P.name
    /\ \A j \in 1..Len(gap) :
           LET row == timeline[a + j]
               days == (gap[j].endDate - gap[j].startDate) + 1
               base == IF customer.interest_type = "simple" THEN principal
                       ELSE timeline[a + j - 1].outstanding
           IN  /\ row.kind = "missing" /\ row.name = gap[j].name
               /\ row.days = days
               /\ \E days_in_year \in {365, 366} :
                      row.interest = interest_on(base, customer.interest_rate, days,
                                                 days_in_year)
    /\ timeline[a + Len(gap) + 1].kind = "opening"
    /\ timeline[a + Len(gap) + 1].name = Q.name

\* C7: gap filling.  When two date-consecutive transactions fall in periods
\* P and P' with at least one transaction-free period between them, the
\* walk ends and the timeline holds, between P's summary row and P''s
\* opening row, exactly one missing-period row per empty period, in order,
\* each with that period's day-count and the interest of the balance at
\* entry to it.
C7_GapFilling ==
    Responded =>
        \A i \in 1..(Len(transactions) - 1) :
            LET sorted_txs == SortByDate(transactions)
                P == period_info(customer.frequency, sorted_txs[i].date,
                                 customer.icl_start_date)
                Q == period_info(customer.frequency, sorted_txs[i + 1].date,
                                 customer.icl_start_date)
                gap == EmptyPeriodsBetween(customer.frequency, P, Q, customer.icl_start_date)
            IN  (P.ok /\ Q.ok /\ gap # <<>>) =>
                    /\ outcome = "returned"
                    /\ \E a \in 1..Len(timeline) :
                           FilledAfter(a, P, gap, Q, PrincipalAfter(sorted_txs, i))

\* whether [start_date, end_date] contains a February 29
ContainsFeb29(start_date, end_date) ==
    \E y \in YearOf(start_date)..YearOf(end_date) :
        is_leap(y) /\ start_date <= MkDate(y, 2, 29) /\ MkDate(y, 2, 29) <= end_date

\* the interest of `days` days from start_date on the divisor the rule gives
\* the interval [start_date, end_date]
InterestByRule(balance, days, start_date, end_date) ==
    interest_on(balance, customer.interest_rate, days,
                IF ContainsFeb29(start_date, end_date) THEN 366 ELSE 365)

\* C8: settlement monotonicity.  For the stored account and transactions
\* and closure dates d1 < d2, the total settlement at d2 is not below the
\* one at d1 (stated here for a positive outstanding balance only).
C8_SettlementMonotone ==
    (outcome = "returned" /\ settlement.closure_date # NoDate
     /\ settlement.outstanding_principal > 0) =>
        \A d1 \in ClosureDates :
            d1 < settlement.closure_date =>
                calculate_settlement_amount(customer, timeline, d1).total_settlement
                    <= settlement.total_settlement

\* C9: the days-in-year divisor of an accrual interval is 366 if and only if
\* the interval contains a February 29, also when the interval starts in
\* one calendar year and ends in the next: for transaction rows (interval
\* [date, date + days]), missing-period rows ([date - days, date]) and the
\* settlement's closing interval ([last entry's date, closure date]).
C9_DaysInYear ==
    outcome = "returned" =>
        /\ \A i \in 1..Len(timeline) :
               LET row == timeline[i]
                   base == IF customer.interest_type = "simple" THEN row.principal_balance
                           ELSE IF row.kind = "missing" THEN timeline[i - 1].outstanding
                           ELSE row.outstanding
               IN  /\ (row.kind = "tx" /\ row.days > 0) =>
                          row.interest = InterestByRule(base, row.days, row.date,
                                                        row.date + row.days)
                   /\ (row.kind = "missing" /\ row.days > 0) =>
                          row.interest = InterestByRule(base, row.days, row.date - row.days,
                                                        row.date)
        /\ (settlement.closure_date # NoDate /\ timeline # <<>>
            /\ settlement.closure_date > timeline[Len(timeline)].date) =>
               settlement.accrued_interest =
                   InterestByRule(settlement.outstanding_principal,
                                  settlement.closure_date - timeline[Len(timeline)].date,
                                  timeline[Len(timeline)].date, settlement.closure_date)

\* C10: walked by "next period after this one", each period starts on the
\* day after the previous period's end, for every start date and frequency.
C10_PeriodsTile ==
    (walk.steps > 0 /\ walk.previous.ok /\ walk.period.ok) =>
        walk.period.startDate = walk.previous.endDate + 1

\* C11: the period get_quarter_info, get_month_info and
\* get_financial_year_info return for a date d contains d, for every anchor
\* start date: startDate <= d <= endDate.
C11_PeriodContainsDate ==
    (walk.steps = 0 /\ walk.date # NoDate /\ walk.period.ok) =>
        (walk.period.startDate <= walk.date /\ walk.date <= walk.period.endDate)

\* overdue_days as the rule gives it: 0 without an end date, else the days
\* of as_of past end date + grace period, never below 0
OverdueDaysByRule(c, as_of) ==
    IF c.icl_end_date = NoDate THEN 0
    ELSE IF as_of - (c.icl_end_date + c.grace_period) > 0
         THEN as_of - (c.icl_end_date + c.grace_period)
         ELSE 0

StatusByRule(c, as_of) ==
    IF c.icl_end_date = NoDate \/ as_of <= c.icl_end_date THEN "active"
    ELSE IF OverdueDaysByRule(c, as_of) = 0 THEN "active"
    ELSE IF OverdueDaysByRule(c, as_of) <= 90 THEN "overdue"
    ELSE "npa"

\* C12: for an account that is not closed, update_loan_status(account,
\* as_of) leaves status active when the end date is unset or as_of is not
\* after it, else active / overdue / npa for 0 / 1..90 / more than 90
\* overdue days, and stores those overdue days (0 without an end date);
\* nothing else of the account changes.
C12_StatusRule ==
    [][(status_date' # NoDate /\ customer.status # "closed") =>
           customer' = [customer EXCEPT !.status = StatusByRule(customer, status_date'),
                                        !.overdue_days =
                                            OverdueDaysByRule(customer, status_date')]]_vars

\* update_loan_status has run on the 91st overdue day of an account
C12_Witness ==
    /\ status_date = MkDate(2024, 10, 29)
    /\ customer.icl_end_date = MkDate(2024, 6, 30)
    /\ customer.status = "npa" /\ customer.overdue_days = 91

\* C13: closed is terminal.  close_loan leaves the account closed, and no
\* later step (status update at any date, ledger view, settlement, balance
\* query, a transaction added or edited, the account edited, the loan closed
\* again)
\* changes the status of a closed account.
C13_ClosedIsTerminal ==
    /\ []((outcome = "returned" /\ settlement.closure_date # NoDate) =>
              customer.status = "closed")
    /\ [][customer.status = "closed" => customer'.status = "closed"]_vars

\* a closed account on which update_loan_status has run on its 91st
\* overdue day
C13_Witness ==
    /\ customer.status = "closed" /\ customer.closure_date # NoDate
    /\ status_date = MkDate(2024, 10, 29) /\ customer.overdue_days = 91

ClosureTransaction(tx) == tx.description = "Loan Closure - Final Settlement"

\* the timeline has a row for transaction tx and it is the last row
IsLastRow(tx) ==
    \E k \in 1..Len(timeline) :
        /\ timeline[k].kind = "tx" /\ timeline[k].name = <<"tx", tx.id, 0>>
        /\ k = Len(timeline)

\* C14: once the account is closed, the timeline calculate_data returns
\* holds no entry after the closure (Final Settlement) transaction's row.
C14_NothingAfterClosure ==
    (customer.status = "closed" /\ outcome = "returned" /\ settlement = NoSettlement
     /\ status_date \in Todays) =>
        \A i \in 1..Len(transactions) :
            (/\ ClosureTransaction(transactions[i])
             /\ \A j \in 1..Len(transactions) :
                    ClosureTransaction(transactions[j]) => j <= i)
            => IsLastRow(transactions[i])

\* C15: a transaction dated after the account's end date never reaches the
\* engine: after any sequence of add_transaction, edit_transaction,
\* edit_customer and close_loan requests every stored transaction of an
\* account with an end date is dated on or before that end date.
C15_NoTransactionAfterEndDate ==
    customer.icl_end_date # NoDate =>
        \A i \in 1..Len(transactions) : transactions[i].date <= customer.icl_end_date

\* C17: with no transactions nothing raises and every query answers with
\* nothing: calculate_data returns an empty timeline, the settlement is zero
\* in outstanding_principal, accrued_interest, penalty_amount and
\* total_settlement, and the balance at any date is zero in
\* outstanding_balance, total_paid, total_received, total_interest and
\* net_interest and is not predicted.
C17_EmptyAccount ==
    (transactions = <<>> /\ Responded) =>
        /\ outcome = "returned"
        /\ timeline = <<>>
        /\ settlement.outstanding_principal = 0 /\ settlement.accrued_interest = 0
        /\ settlement.penalty_amount = 0 /\ settlement.total_settlement = 0
        /\ balance_result.outstanding_balance = 0 /\ balance_result.total_paid = 0
        /\ balance_result.total_received = 0 /\ balance_result.total_interest = 0
        /\ balance_result.net_interest = 0 /\ ~balance_result.is_predicted

\* the balance of an account without transactions asked for a date beyond
\* its end date
C17_Witness ==
    /\ transactions = <<>> /\ outcome = "returned"
    /\ balance_result.calculation_date = MkDate(2024, 8, 1)
    /\ balance_result.is_beyond_icl_end


\* a balance query answered for an account with transactions
BalanceAnswered ==
    /\ outcome = "returned" /\ transactions # <<>>
    /\ balance_result.calculation_date # NoDate

\* min(target date, end date) of the balance query answered
CappedTarget ==
    IF customer.icl_end_date = NoDate THEN balance_result.calculation_date
    ELSE Min(balance_result.calculation_date, customer.icl_end_date)

\* the date of the last actual transaction
LastTransactionDate == SortByDate(transactions)[Len(transactions)].date

\* the index of the last timeline entry dated on or before d (0: none)
LastEntryUpTo(d) ==
    LET S == {k \in 1..Len(timeline) : timeline[k].date <= d}
    IN  IF S = {} THEN 0 ELSE CHOOSE k \in S : \A j \in S : j <= k

\* the balance of entry k (0 when there is none) with one interest
\* increment for the days from that entry to d added, net of TDS, the year
\* counted as 365 or as 366 days; none when d is not after the entry
ExtrapolatedTo(k, d, balance) ==
    IF k = 0 THEN balance = 0
    ELSE IF d <= timeline[k].date THEN balance = timeline[k].outstanding
    ELSE \E days_in_year \in {365, 366} :
            balance = timeline[k].outstanding
                      + net_of(interest_on(timeline[k].outstanding, customer.interest_rate,
                                           d - timeline[k].date, days_in_year),
                               customer.tds_rate)

\* nothing added to the balance of entry k
NotExtrapolated(k, balance) ==
    balance = IF k = 0 THEN 0 ELSE timeline[k].outstanding

\* C18 as stated: for a target date after the last actual transaction the
\* balance is the one of the last entry dated on or before
\* min(target, end date), extrapolated up to the target date, and the result
\* is predicted; for a target date on or before the last actual transaction
\* nothing is extrapolated and the result is not predicted.
C18_ExtrapolatesBeyondLastTransaction ==
    BalanceAnswered =>
        \E target \in {balance_result.calculation_date} :
            \E k \in {LastEntryUpTo(CappedTarget)} :
                IF target > LastTransactionDate
                THEN /\ balance_result.is_predicted
                     /\ ExtrapolatedTo(k, target, balance_result.outstanding_balance)
                ELSE /\ ~balance_result.is_predicted
                     /\ NotExtrapolated(k, balance_result.outstanding_balance)

\* C18, amended: the balance is the one of the last entry dated on or before
\* min(target, end date), extrapolated up to min(target, end date) whenever
\* that date is after the entry, whether or not a later transaction exists;
\* the result is predicted exactly when min(target, end date) is after the
\* last actual transaction.
C18_ExtrapolatesToEffectiveTarget ==
    BalanceAnswered =>
        \E effective \in {CappedTarget} :
            /\ ExtrapolatedTo(LastEntryUpTo(effective), effective,
                              balance_result.outstanding_balance)
            /\ balance_result.is_predicted <=> effective > LastTransactionDate

\* a predicted balance for a date after the last transaction and after the
\* last entry of the timeline, with interest added to that entry's balance
C18_Witness ==
    /\ BalanceAnswered
    /\ balance_result.is_predicted /\ ~balance_result.is_beyond_icl_end
    /\ balance_result.calculation_date > timeline[Len(timeline)].date
    /\ balance_result.outstanding_balance > timeline[Len(timeline)].outstanding

\* what calculate_balance_at_date(customer, target_date) returns when called
\* on the account as it is stored now
BalanceAgain(target_date, r) ==
    IF r.error = "none"
    THEN calculate_balance_at_date(r.customer, transactions, target_date, r.timeline)
    ELSE NoBalance

\* C19: calling calculate_balance_at_date again for the same date, with the
\* settings and transactions unchanged, returns the result of the first call
\* in every field: the status and overdue_days the first call stored do not
\* influence it.
C19_BalanceIdempotent ==
    (outcome = "returned" /\ balance_result.calculation_date # NoDate) =>
        \A today \in Todays :
            BalanceAgain(balance_result.calculation_date,
                         calculate_data(customer, transactions, today)) = balance_result

\* a balance query past the end date, whose status update left the account
\* overdue
C19_Witness ==
    /\ BalanceAnswered
    /\ balance_result.is_beyond_icl_end
    /\ customer.status = "overdue" /\ customer.overdue_days > 0

\* C16: a transaction that leaves the outstanding balance at or below zero
\* accrues no ordinary interest for the rest of its period: its row's
\* interest is zero, under either repayment convention and whether or not it
\* is the first transaction of its period.
C16_NoInterestOnceRepaid ==
    \A k \in 1..Len(timeline) :
        (timeline[k].kind = "tx" /\ timeline[k].outstanding <= 0) => timeline[k].interest = 0

\* the timeline's row of a transaction
RowOf(tx) ==
    CHOOSE e \in {timeline[k] : k \in 1..Len(timeline)} :
        e.kind = "tx" /\ e.name = <<"tx", tx.id, 0>>

\* the period the resolver gives for a transaction
PeriodOfTx(tx) == period_info(customer.frequency, tx.date, customer.icl_start_date)

\* transaction i of the sorted list is followed by one in the same period
\* (the last window of the period otherwise)
FollowedInPeriod(sorted_txs, i) ==
    /\ i < Len(sorted_txs)
    /\ PeriodOfTx(sorted_txs[i + 1]).name = PeriodOfTx(sorted_txs[i]).name

\* the accrual boundary of transaction i: the next transaction's date when it
\* is in the same period, else the period end capped by the end date
AccrualBoundary(sorted_txs, i) ==
    IF FollowedInPeriod(sorted_txs, i) THEN sorted_txs[i + 1].date
    ELSE IF customer.icl_end_date # NoDate
         THEN Min(PeriodOfTx(sorted_txs[i]).endDate, customer.icl_end_date)
         ELSE PeriodOfTx(sorted_txs[i]).endDate

\* transaction i is a repayment, the first transaction of its period, under
\* the inclusive convention or the exclusive override
InclusiveBranchApplies(sorted_txs, i) ==
    /\ i > 1
    /\ sorted_txs[i].received > 0
    /\ PeriodOfTx(sorted_txs[i]).name # PeriodOfTx(sorted_txs[i - 1]).name
    /\ \/ customer.repayment_method = "inclusive"
       \/ sorted_txs[i].date = PeriodOfTx(sorted_txs[i]).endDate

\* the days from the day after the repayment to the boundary, one more in the
\* last window of the period, never negative
DaysAfterRepayment(sorted_txs, i) ==
    LET days == AccrualBoundary(sorted_txs, i) - (sorted_txs[i].date + 1)
                + (IF FollowedInPeriod(sorted_txs, i) THEN 0 ELSE 1)
    IN  IF days < 0 THEN 0 ELSE days

\* C20: a repayment the inclusive branch applies to, which leaves the
\* outstanding balance positive, has a row that accrues from the day after
\* the repayment to the accrual boundary: days = boundary - (date + 1 day),
\* plus 1 in the last window of the period; in leap years as in others.
C20_InclusiveRemainder ==
    (outcome = "returned" /\ timeline # <<>>) =>
        \E sorted_txs \in {SortByDate(transactions)} :
            \A i \in 1..Len(sorted_txs) :
                (InclusiveBranchApplies(sorted_txs, i) /\ RowOf(sorted_txs[i]).outstanding > 0)
                    => RowOf(sorted_txs[i]).days = DaysAfterRepayment(sorted_txs, i)

\* the opening row of a period: the first entry with that period's opening id
OpeningRowOf(info) ==
    timeline[CHOOSE k \in 1..Len(timeline) :
                 /\ timeline[k].kind = "opening" /\ timeline[k].name = info.name
                 /\ \A j \in 1..(k - 1) :
                        ~(timeline[j].kind = "opening" /\ timeline[j].name = info.name)]

\* the balance interest is computed on, as it was before the transaction:
\* the principal for the simple variants, the outstanding for the compound
BaseBefore(tx) ==
    IF customer.interest_type = "simple"
    THEN RowOf(tx).principal_balance - tx.paid + tx.received
    ELSE RowOf(tx).outstanding - tx.paid + tx.received

\* C21: when the inclusive branch recomputes the opening row of a period and
\* the repayment exceeds the balance interest was computed on before it
\* (principal for simple, outstanding for compound), the opening row's
\* interest is the one of that pre-repayment balance over
\* (transaction date - period start + 1) days.
C21_OpeningOnPreRepaymentBalance ==
    (outcome = "returned" /\ timeline # <<>>) =>
        \E sorted_txs \in {SortByDate(transactions)} :
            \A i \in 1..Len(sorted_txs) :
                (InclusiveBranchApplies(sorted_txs, i)
                 /\ sorted_txs[i].received > BaseBefore(sorted_txs[i]))
                    => \E days_in_year \in {365, 366} :
                           OpeningRowOf(PeriodOfTx(sorted_txs[i])).interest =
                               interest_on(BaseBefore(sorted_txs[i]), customer.interest_rate,
                                           sorted_txs[i].date
                                           - PeriodOfTx(sorted_txs[i]).startDate + 1,
                                           days_in_year)

\* C22: every invocation of calculate_data, for an account without
\* transactions too, runs the status update first: once it has responded,
\* the account's status and overdue_days are the ones of the current date.
C22_StatusUpdatedByEveryInvocation ==
    Responded =>
        \A today \in Todays :
            /\ customer.overdue_days = OverdueDaysByRule(customer, today)
            /\ customer.status = StatusByRule(customer, today)

\* the account with the other interest type
OtherInterestType(c) ==
    [c EXCEPT !.interest_type = IF c.interest_type = "simple" THEN "compound" ELSE "simple"]

\* two timelines with the same rows: the same entries with identical days,
\* interest, penalty, tds, net and outstanding
SameRows(a, b) ==
    /\ Len(a) = Len(b)
    /\ \A k \in 1..Len(a) :
        /\ a[k].kind = b[k].kind /\ a[k].name = b[k].name /\ a[k].date = b[k].date
        /\ a[k].days = b[k].days /\ a[k].interest = b[k].interest
        /\ a[k].penalty_interest = b[k].penalty_interest
        /\ a[k].tds = b[k].tds /\ a[k].net = b[k].net
        /\ a[k].outstanding = b[k].outstanding

\* the stored transactions are all in one period
AllInOnePeriod ==
    \A i, j \in 1..Len(transactions) :
        PeriodOfTx(transactions[i]).name = PeriodOfTx(transactions[j]).name

\* the end date makes the yearly compound variant add its remaining-period
\* entry: it lies beyond the financial year of the last transaction
RemainderTriggered ==
    /\ customer.frequency = "yearly" /\ customer.icl_end_date # NoDate
    /\ customer.icl_end_date > PeriodOfTx(SortByDate(transactions)[Len(transactions)]).endDate

\* outstanding equals principal at every step
NothingCapitalised == AllInOnePeriod \/ customer.tds_rate = 100

\* C23: with nothing capitalised and no remaining-period entry, the simple
\* and the compound variant of the account's frequency return the same
\* rows: computing the ledger with the other interest type gives the
\* timeline just returned (and raises when this one raised).
C23_VariantsAgree ==
    (Responded /\ transactions # <<>> /\ NothingCapitalised /\ ~RemainderTriggered) =>
        \E r \in {calculate_by_variant(OtherInterestType(customer), transactions)} :
            /\ (r.error = "none") <=> (outcome = "returned")
            /\ outcome = "returned" => SameRows(timeline, r.timeline)

\* paid minus received over the transaction rows among the first k entries
RECURSIVE PrincipalUpTo(_)
PrincipalUpTo(k) ==
    IF k = 0 THEN 0
    ELSE PrincipalUpTo(k - 1)
         + (IF timeline[k].kind = "tx" THEN timeline[k].paid - timeline[k].received ELSE 0)

\* the net interest capitalised by the first k entries: what the summary and
\* missing-period rows among them added to the outstanding balance
RECURSIVE CapitalisedUpTo(_)
CapitalisedUpTo(k) ==
    IF k = 0 THEN 0
    ELSE CapitalisedUpTo(k - 1)
         + (IF timeline[k].kind \in {"summary", "missing"} THEN timeline[k].paid ELSE 0)

\* C24: in the simple variants the principal_balance of every row is paid
\* minus received over the transactions processed so far, no row adding
\* capitalised interest to it, and on a summary or missing-period row
\* outstanding - principal_balance is the net interest capitalised so far.
C24_PrincipalBalance ==
    (outcome = "returned" /\ customer.interest_type = "simple") =>
        \A k \in 1..Len(timeline) :
            /\ "principal_balance" \in timeline[k].keys
            /\ timeline[k].principal_balance = PrincipalUpTo(k)
            /\ timeline[k].kind \in {"summary", "missing"} =>
                   timeline[k].outstanding - timeline[k].principal_balance = CapitalisedUpTo(k)

\* a simple ledger with a period closed, an empty period filled in and a
\* period opened, in which interest has been capitalised
C24_Witness ==
    /\ outcome = "returned" /\ customer.interest_type = "simple"
    /\ \E i, j, k \in 1..Len(timeline) :
        /\ i < j /\ j < k
        /\ timeline[i].kind = "summary" /\ timeline[i].paid > 0
        /\ timeline[j].kind = "missing" /\ timeline[j].paid > 0
        /\ timeline[k].kind = "opening"
        /\ timeline[k].outstanding > timeline[k].principal_balance

\* C25: no row accrues over a negative number of days: the day-count of
\* every opening, transaction and missing-period row is at least 0, whatever
\* the start date's day of the month and the end date.
C25_NoNegativeDays ==
    \A k \in 1..Len(timeline) :
        timeline[k].kind \in {"opening", "tx", "missing"} => timeline[k].days >= 0

\* the outstanding balance of the last entry of the timeline computed for
\* account c with transactions txs; within a rupee of zero
FinalOutstandingZero(c, txs) ==
    \E r \in {calculate_by_variant(c, txs)} :
        /\ r.error = "none"
        /\ r.timeline[Len(r.timeline)].outstanding <= Rupees(1)
        /\ r.timeline[Len(r.timeline)].outstanding >= -Rupees(1)

\* C26: once close_loan has stored the settlement transaction with received
\* = total_settlement, the timeline computed again ends with an outstanding
\* balance of zero: the settlement clears the loan, whether the closure date
\* lies inside or after the last period with transactions.
C26_SettlementClearsLoan ==
    [][(/\ customer.status # "closed" /\ customer'.status = "closed"
        /\ Len(transactions') = Len(transactions) + 1)
           => FinalOutstandingZero(customer', transactions')]_vars

\* C27: every transaction row of every timeline has penalty_interest = 0:
\* the accrual window of a transaction dated after icl_end_date is capped at
\* icl_end_date, so the penalty is computed over no days; the ledger never
\* charges a penalty.
C27_NoPenaltyInLedger ==
    \A i \in 1..Len(timeline) :
        timeline[i].kind = "tx" => timeline[i].penalty_interest = 0

\* a transaction row dated after the grace period of the end date, carrying
\* a balance, with a negative day-count, has been computed
C27_Witness ==
    /\ outcome = "returned"
    /\ customer.icl_end_date # NoDate
    /\ \E i \in 1..Len(timeline) :
           /\ timeline[i].kind = "tx"
           /\ timeline[i].date > customer.icl_end_date + customer.grace_period
           /\ timeline[i].outstanding > 0
           /\ timeline[i].days < 0
           /\ timeline[i].penalty_interest = 0

\* the account under the other repayment convention
OtherRepaymentMethod(c) ==
    [c EXCEPT !.repayment_method =
                  IF c.repayment_method = "inclusive" THEN "exclusive" ELSE "inclusive"]

\* transaction i of the date-ordered list is a repayment and the first
\* transaction of a period other than the first transaction's
RepaymentOpensPeriod(sorted_txs, i) ==
    /\ i > 1
    /\ sorted_txs[i].received > 0
    /\ PeriodOfTx(sorted_txs[i]).name # PeriodOfTx(sorted_txs[i - 1]).name

NoRepaymentOpensPeriod ==
    \A i \in 1..Len(transactions) : ~RepaymentOpensPeriod(SortByDate(transactions), i)

\* C28: when no repayment is the first transaction of a period other than
\* the first period, the timeline is the same, row for row, under
\* repayment_method inclusive and exclusive (the first transaction of the
\* ledger is never treated inclusively).
C28_ConventionOnlyForPeriodOpeningRepayment ==
    (outcome = "returned" /\ transactions # <<>> /\ NoRepaymentOpensPeriod)
        => \E r \in {calculate_by_variant(OtherRepaymentMethod(customer), transactions)} :
               r.error = "none" /\ r.timeline = timeline

\* a ledger that starts with a repayment, or has a repayment later in a
\* period, has been computed
C28_Witness ==
    /\ outcome = "returned" /\ NoRepaymentOpensPeriod
    /\ Len(transactions) = 2
    /\ \E sorted_txs \in {SortByDate(transactions)} :
           /\ sorted_txs[2].received > 0
           /\ sorted_txs[2].date = PeriodOfTx(sorted_txs[2]).endDate
           /\ sorted_txs[1].paid > 0
           /\ RowOf(sorted_txs[2]).outstanding > 0

\* C29: the two point queries agree: for a date later than the last
\* timeline entry and not after icl_end_date, the outstanding_balance of
\* calculate_balance_at_date equals the total_settlement of
\* calculate_settlement_amount for that date.
C29_PointQueriesAgree ==
    (/\ BalanceAnswered
     /\ balance_result.calculation_date > timeline[Len(timeline)].date
     /\ (customer.icl_end_date = NoDate
            \/ balance_result.calculation_date <= customer.icl_end_date))
        => balance_result.outstanding_balance
               = calculate_settlement_amount(customer, timeline,
                                             balance_result.calculation_date).total_settlement

\* the net interest of the opening, transaction, missing-period and
\* remaining-period rows among the first k entries
RECURSIVE NetUpTo(_)
NetUpTo(k) ==
    IF k = 0 THEN 0
    ELSE NetUpTo(k - 1)
         + (IF timeline[k].kind \in {"opening", "tx", "missing", "remaining"}
            THEN timeline[k].net ELSE 0)

\* the net interest of the opening and transaction rows of the period that
\* entry k closes: the rows between the previous capitalising row and k
RECURSIVE PeriodNetBefore(_)
PeriodNetBefore(k) ==
    IF k = 0 THEN 0
    ELSE IF timeline[k].kind \in {"opening", "tx"}
         THEN PeriodNetBefore(k - 1) + timeline[k].net
         ELSE 0

\* C30: interest is capitalised exactly once: the last entry's outstanding is
\* paid - received over the transaction rows plus net over the opening,
\* transaction, missing-period and remaining-period rows, and the paid of
\* each period summary is net over that period's opening and transaction rows.
C30_CapitalisedOnce ==
    (outcome = "returned" /\ timeline # <<>>) =>
        /\ timeline[Len(timeline)].outstanding
               = PrincipalUpTo(Len(timeline)) + NetUpTo(Len(timeline))
        /\ \A k \in 1..Len(timeline) :
               timeline[k].kind = "summary" => timeline[k].paid = PeriodNetBefore(k - 1)

\* a ledger in which a period was closed, empty periods were filled in and
\* the opening row of a later period was recomputed for a repayment
C30_Witness ==
    /\ outcome = "returned" /\ Len(transactions) = 2
    /\ \E sorted_txs \in {SortByDate(transactions)} :
           /\ InclusiveBranchApplies(sorted_txs, 2)
           /\ sorted_txs[1].paid > 0
           /\ OpeningRowOf(PeriodOfTx(sorted_txs[2])).net > 0
           /\ OpeningRowOf(PeriodOfTx(sorted_txs[2])).days
                  = (sorted_txs[2].date - PeriodOfTx(sorted_txs[2]).startDate) + 1
    /\ \E j \in 1..Len(timeline) : timeline[j].kind = "missing" /\ timeline[j].net > 0
    /\ timeline[Len(timeline)].kind = "summary"
    /\ timeline[Len(timeline)].paid # 0

====
